---- MODULE Spec2Model ----
(***************************************************************************)
(* Model of TranslationModelManager (src/models/management.py) as it is    *)
(* called by the serving endpoint (src/app/definition.py), whose request   *)
(* threads run predict concurrently, and by the command line (src/main.py):*)
(* the manager's mapping, its two in-memory caches, the bundle directories *)
(* under LOCAL_MODEL_DIR, and the predict calls in flight, each advancing  *)
(* by one access to the caches or the disk at a time (Spec).               *)
(*                                                                         *)
(* A second specification, MgmtSpec, has what runs outside predict, one    *)
(* operation after the other: start-up loading (load_api_models), the      *)
(* S3 fetcher and the bucket (src/models/aws.py), the save_model command   *)
(* and the /models listing (get_models_info).                              *)
(*                                                                         *)
(* A third one, BatchSpec, has the /predict endpoint: the manager built    *)
(* from a mappings file, one batch request at a time, whose items go       *)
(* through the steps of predict one after the other.                       *)
(*                                                                         *)
(* Strings the code transforms (pair keys, texts) are sequences of         *)
(* one-character strings, so that lower() and strip() are computed.        *)
(***************************************************************************)
EXTENDS Naturals, Sequences, FiniteSets, TLC

\* --------------------------------------------------------------- bounds
\* Number of predict calls made in a run; the server's request threads may
\* run any of them at the same time. Also the most items of a batch.
NCalls == 2

\* The calls, numbered in the order in which they start.
Calls == 1..NCalls

\* Number of runs of the program (server starts and save_model commands)
\* over the hosts that share the bucket.
NRuns == 2

\* ------------------------------------------------------ strings as data
en_fr == <<"e", "n", "-", "f", "r">>
en_es == <<"e", "n", "-", "e", "s">>
en_de == <<"e", "n", "-", "d", "e">>
de_en == <<"d", "e", "-", "e", "n">>
fr_es == <<"f", "r", "-", "e", "s">>
es_en == <<"e", "s", "-", "e", "n">>
EN_ES == <<"E", "N", "-", "E", "S">>
xx_yy == <<"x", "x", "-", "y", "y">>

\* settings/config.py: the supported pairs, in catalog order.
AVAILABLE_TRANSLATIONS == <<en_fr, en_es, en_de, de_en, fr_es, es_en>>

\* settings/config.py: the storage modes the constructor accepts.
AVAILABLE_MODEL_STORAGE_MODES == <<"s3", "local">>

SeqRange(s) == {s[i] : i \in 1..Len(s)}

\* str.lower() on one character (the letters the pair keys use).
LowerChar(c) ==
    CASE c = "E" -> "e"
      [] c = "N" -> "n"
      [] c = "S" -> "s"
      [] c = "F" -> "f"
      [] c = "R" -> "r"
      [] c = "D" -> "d"
      [] c = "X" -> "x"
      [] c = "Y" -> "y"
      [] OTHER -> c

\* str.lower()
Lower(s) == [i \in 1..Len(s) |-> LowerChar(s[i])]

\* str.upper(), on the letters of the pair keys.
UpperChar(c) ==
    CASE c = "e" -> "E"
      [] c = "n" -> "N"
      [] c = "s" -> "S"
      [] c = "f" -> "F"
      [] c = "r" -> "R"
      [] c = "d" -> "D"
      [] c = "x" -> "X"
      [] c = "y" -> "Y"
      [] OTHER -> c

Upper(s) == [i \in 1..Len(s) |-> UpperChar(s[i])]

IsSpace(c) == c \in {" ", "\t", "\n"}

RECURSIVE LStrip(_)
LStrip(s) ==
    IF s # <<>> /\ IsSpace(Head(s)) THEN LStrip(Tail(s)) ELSE s

RECURSIVE RStrip(_)
RStrip(s) ==
    IF s # <<>> /\ IsSpace(s[Len(s)]) THEN RStrip(SubSeq(s, 1, Len(s) - 1)) ELSE s

\* str.strip()
Strip(s) == RStrip(LStrip(s))

\* ----------------------------------------------------- bundle contents
ENCODER == "encoder_model.onnx"
DECODER == "decoder_model.onnx"
DECODER_PAST == "decoder_with_past_model.onnx"
CONFIG == "config.json"
TOKENIZER == "tokenizer_config.json"

\* predict: the files whose presence is verified before loading.
required_files == <<ENCODER, DECODER, DECODER_PAST>>

\* What onnx_model.save_pretrained writes into the bundle directory.
SavedModelFiles == {ENCODER, DECODER, DECODER_PAST, CONFIG}

\* What tokenizer.save_pretrained writes into the bundle directory.
SavedTokenizerFiles == {TOKENIZER}

AllFiles == SavedModelFiles \cup SavedTokenizerFiles

\* ------------------------------------------------ dictionaries (ordered)
\* A Python dict is a sequence of [k, v] records with distinct keys, in
\* insertion order.
DictKeys(d) == [i \in 1..Len(d) |-> d[i].k]

DictHas(d, key) == \E i \in 1..Len(d) : d[i].k = key

DictGet(d, key) == d[CHOOSE i \in 1..Len(d) : d[i].k = key].v

\* d[key] = value: an existing key keeps its position.
DictSet(d, key, value) ==
    IF DictHas(d, key)
    THEN [i \in 1..Len(d) |-> IF d[i].k = key THEN [k |-> key, v |-> value] ELSE d[i]]
    ELSE Append(d, [k |-> key, v |-> value])

\* --------------------------------------------------------- constructor
\* __init__: the comprehension that lowercases the keys and keeps those in
\* AVAILABLE_TRANSLATIONS.
RECURSIVE FilterMappings(_)
FilterMappings(raw) ==
    IF raw = <<>> THEN <<>>
    ELSE LET init == FilterMappings(SubSeq(raw, 1, Len(raw) - 1))
             last == raw[Len(raw)]
         IN  IF Lower(last.k) \in SeqRange(AVAILABLE_TRANSLATIONS)
             THEN DictSet(init, Lower(last.k), last.v)
             ELSE init

\* The raw mapping handed to the constructor (the contents of the mappings
\* file): a partial one, with an upper-case key, a key outside the supported
\* set, and its keys in another order than the catalog's.
RawMapping ==
    << [k |-> EN_ES, v |-> "opus-mt-en-es"], [k |-> xx_yy, v |-> "opus-mt-xx-yy"],
       [k |-> en_fr, v |-> "opus-mt-en-fr"] >>

\* -------------------------------------------------------------- paths
\* A path or an object key is the sequence of its pieces: the characters of
\* a pair key, "/" and whole directory or file names.
LOCAL_MODEL_DIR == <<"models", "/", "downloads">>

\* Path(a) / b and os.path.join(a, b), b relative.
PathJoin(a, b) == a \o <<"/">> \o b

StartsWith(s, prefix) ==
    Len(s) >= Len(prefix) /\ SubSeq(s, 1, Len(prefix)) = prefix

\* The position of the last "/" of a path, 0 when it has none.
LastSlash(path) ==
    LET at == {i \in 1..Len(path) : path[i] = "/"}
    IN  IF at = {} THEN 0 ELSE CHOOSE i \in at : \A j \in at : j <= i

\* Path.name and os.path.basename: what follows the last "/".
PathName(path) == SubSeq(path, LastSlash(path) + 1, Len(path))

\* os.path.dirname: what precedes the last "/".
DirName(path) == SubSeq(path, 1, LastSlash(path) - 1)

\* os.path.relpath(path, start) for a start of one directory name: what
\* follows "start/" when the path lies under it, else the way up and down.
RelPath(path, start) ==
    IF path = start THEN <<".">>
    ELSE IF StartsWith(path, start \o <<"/">>)
    THEN SubSeq(path, Len(start) + 2, Len(path))
    ELSE <<"..", "/">> \o path

\* --------------------------------------------------------------- json
\* The text of a config.json is the sequence of its tokens.
SavedConfig == <<"{", "model_type", ":", "marian", "}">>

\* A config.json cut short while it was written.
TruncatedConfig == <<"{", "model_type", ":">>

JsonError == [ok |-> FALSE, value |-> <<>>]

\* The members of a JSON object, name ":" value separated by ",", as a dict.
RECURSIVE JsonMembers(_)
JsonMembers(tokens) ==
    IF Len(tokens) < 3 \/ tokens[2] # ":" \/ tokens[1] \in {"{", "}", ":", ","}
                       \/ tokens[3] \in {"{", "}", ":", ","}
    THEN JsonError
    ELSE IF Len(tokens) = 3
    THEN [ok |-> TRUE, value |-> <<[k |-> tokens[1], v |-> tokens[3]]>>]
    ELSE IF tokens[4] # ","
    THEN JsonError
    ELSE LET rest == JsonMembers(SubSeq(tokens, 5, Len(tokens)))
         IN  IF rest.ok
             THEN [ok |-> TRUE,
                   value |-> DictSet(<<[k |-> tokens[1], v |-> tokens[3]]>> \o
                                       SelectSeq(rest.value, LAMBDA m : m.k # tokens[1]),
                                     tokens[1],
                                     IF DictHas(rest.value, tokens[1])
                                     THEN DictGet(rest.value, tokens[1]) ELSE tokens[3])]
             ELSE JsonError

\* Mutant: any text is taken for an object, an empty one.
JsonLoadLenient(text) == [ok |-> TRUE, value |-> <<>>]

\* json.load: the dict of a JSON object, or an exception.
JsonLoad(text) ==
    IF Len(text) < 2 \/ text[1] # "{" \/ text[Len(text)] # "}"
    THEN JsonError
    ELSE IF Len(text) = 2
    THEN [ok |-> TRUE, value |-> <<>>]
    ELSE JsonMembers(SubSeq(text, 2, Len(text) - 1))

\* ------------------------------------------------------------- inputs
\* Pair keys and texts the callers send.
PairInputs == {en_es, EN_ES, xx_yy}

TextInputs == {<<>>, <<" ">>, <<"h", "i">>}

\* Bundle directories found under LOCAL_MODEL_DIR when the process starts:
\* none, a complete en-es bundle, and an en-es bundle with a single weight
\* file.
EmptyDisk == [d \in {} |-> {}]

InitialDisks ==
    { EmptyDisk,
      [d \in {en_es} |-> AllFiles],
      [d \in {en_es} |-> {ENCODER, CONFIG, TOKENIZER}] }

\* -------------------------------------------------------------- state
VARIABLES
    model_mappings,             \* self.model_mappings
    model_storage_mode,         \* self.model_storage_mode
    overwrite_existing_models,  \* self.overwrite_existing_models
    model_cache,                \* self._model_cache: pair -> model handle
    tokenizer_cache,            \* self._tokenizer_cache: pair -> tokenizer handle
    disk,                       \* LOCAL_MODEL_DIR: directory name -> set of files
    pc,                         \* each call's position in predict ("idle": not yet
                                \* made, "done": returned or raised)
    call,                       \* each call's arguments, locals and outcome; its
                                \* field raise_on_missing_model is "True" or "False"
                                \* until the directory check, its only reader, is
                                \* past, and "-" from then on; its fields fetches
                                \* and intact are history: the fetcher
                                \* invocations of the call, and whether the bundle
                                \* was complete at the call and has stayed so
    loaded,                     \* history: the number of model loads, per pair key
    workdir,                    \* directories of the working directory outside
                                \* LOCAL_MODEL_DIR: path -> set of files
    config_json,                \* the text of LOCAL_MODEL_DIR/<name>/config.json
    bucket,                     \* the S3 bucket: the set of its object keys
    startup,                    \* the runs of the program on this host and the
                                \* position of load_api_models in the current one
    fetch_log,                  \* history: the fetcher calls and what they did
    reply,                      \* what the last /models request was answered
    env_model_mappings,         \* EnvironmentConfig.model_mappings: the contents
                                \* of the mappings file, handed to the constructor
    request                     \* the /predict request being served, or the last
                                \* one answered

vars == << model_mappings, model_storage_mode, overwrite_existing_models,
           model_cache, tokenizer_cache, disk, pc, call, loaded,
           workdir, config_json, bucket, startup, fetch_log, reply,
           env_model_mappings, request >>

\* What is fixed once the manager is constructed.
config == << model_mappings, model_storage_mode, overwrite_existing_models,
             env_model_mappings >>

\* What predict never touches: the state of start-up loading, of publishing
\* and of the model listing.
mgmt == << workdir, config_json, bucket, startup, fetch_log, reply, request >>

\* What start-up loading, publishing and the model listing never touch.
serving == << model_cache, tokenizer_cache, pc, call, loaded >>

\* What only the /predict endpoint touches.
batch == << request >>

NoResult ==
    [kind |-> "none", pairs |-> <<>>, missing |-> <<>>, text |-> <<>>]

NoCall ==
    [pair |-> <<>>, text |-> <<>>, raise_on_missing_model |-> "-", fetches |-> 0,
     own |-> 0, intact |-> FALSE, result |-> NoResult]

\* No file text, no object.
NoTexts == [k \in {} |-> <<>>]

\* The program has not been run: nothing is loading.
NoStartup == [state |-> "off", runs |-> 0, model_limit |-> 0, attempted |-> <<>>]

NoFetch == [fetcher |-> "none", pair |-> <<>>, outcome |-> "none", objects |-> 0]

\* fetch_log.invoked: per pair key, how many times a fetcher went as far as
\* calling the hub conversion or the storage backend on this host;
\* fetch_log.fetched: per pair key, how many of these ran to their end;
\* fetch_log.last: the latest fetcher call, how it ended and how many objects
\* the backend listed; fetch_log.published: per pair key, the files
\* save_model uploaded.
NoFetchLog ==
    [invoked |-> [k \in {} |-> 0], fetched |-> [k \in {} |-> 0], last |-> NoFetch,
     published |-> [k \in {} |-> {}]]

\* reply.request: the parity of the number of /models requests answered;
\* reply.info: what get_models_info returned; reply.models: the response body.
NoReply ==
    [kind |-> "none", request |-> 0, return_model_config |-> FALSE, info |-> <<>>,
     status |-> 0, models |-> <<>>]

\* request.served: the number of /predict requests received; request.calls:
\* history, the positions of the items predict was called for; request.results:
\* the list the endpoint collects; request.status, request.detail: the answer.
NoRequest ==
    [state |-> "none", served |-> 0, pair |-> <<>>, items |-> <<>>, index |-> 0,
     calls |-> <<>>, results |-> <<>>, status |-> 0, detail |-> "none"]

\* The state after TranslationModelManager(...) returned: the filtered
\* mapping, the lowercased storage mode, both caches empty.
Init ==
    /\ env_model_mappings = RawMapping
    /\ model_mappings = FilterMappings(env_model_mappings)
    /\ model_storage_mode \in SeqRange(AVAILABLE_MODEL_STORAGE_MODES)
    /\ overwrite_existing_models \in BOOLEAN
    /\ model_cache = [k \in {} |-> 0]
    /\ tokenizer_cache = [k \in {} |-> 0]
    /\ disk \in InitialDisks
    /\ pc = [t \in Calls |-> "idle"]
    /\ call = [t \in Calls |-> NoCall]
    /\ loaded = [k \in {} |-> 0]
    /\ workdir = EmptyDisk
    /\ config_json = NoTexts
    /\ bucket = NoTexts
    /\ startup = NoStartup
    /\ fetch_log = NoFetchLog
    /\ reply = NoReply
    /\ request = NoRequest

\* ------------------------------------------------------------ helpers
\* f[key] = value on a mapping whose domain grows.
Put(f, key, value) ==
    [x \in DOMAIN f \cup {key} |-> IF x = key THEN value ELSE f[x]]

\* Path.exists() of LOCAL_MODEL_DIR / name.
DirExists(name) == name \in DOMAIN disk

\* Path.exists() of LOCAL_MODEL_DIR / name / file.
FileExists(name, file) == DirExists(name) /\ file \in disk[name]

\* Writing files into LOCAL_MODEL_DIR / name, creating the directory.
WriteFiles(name, files) ==
    Put(disk, name, (IF DirExists(name) THEN disk[name] ELSE {}) \cup files)

Finish(t, result) ==
    /\ pc' = [pc EXCEPT ![t] = "done"]
    /\ call' = [call EXCEPT ![t].result = result]

Goto(t, label) == pc' = [pc EXCEPT ![t] = label]

\* ------------------------------------------------------------ resolver
\* Mutant: the key is looked up as it is written.
ResolveOkExact(translation_pair) == DictHas(model_mappings, translation_pair)

\* _resolve_model_from_translation_pair: the key is lowercased and looked up
\* in the filtered mapping.
ResolveOk(translation_pair) == DictHas(model_mappings, Lower(translation_pair))

Resolve(translation_pair) == DictGet(model_mappings, Lower(translation_pair))

\* Mutant: the message lists the whole catalog instead of the manager's keys.
UnknownPairErrorCatalog ==
    [NoResult EXCEPT !.kind = "UnknownPair", !.pairs = AVAILABLE_TRANSLATIONS]

\* ValueError("Translation pair ... not found. Available pairs: [...]")
UnknownPairError == [NoResult EXCEPT !.kind = "UnknownPair", !.pairs = DictKeys(model_mappings)]

\* ------------------------------------------------------------- predict
\* Mutant: the text is tested without being stripped.
TextIsValidNoStrip(text) == text # <<>>

\* predict, "Validate inputs": text.strip() must be non-empty.
TextIsValid(text) == Strip(text) # <<>>

\* ValueError("'text' must be a non-empty string")
InvalidInputError == [NoResult EXCEPT !.kind = "InvalidInput"]

\* FileNotFoundError("Model for translation pair ... not found ...") and
\* FileNotFoundError("Failed to download model ...")
ArtifactMissingError == [NoResult EXCEPT !.kind = "ArtifactMissing"]

\* FileNotFoundError("Missing required ONNX model files ...: [...]")
IncompleteArtifactError(missing_files) ==
    [NoResult EXCEPT !.kind = "IncompleteArtifact", !.missing = missing_files]

\* An exception of the model or tokenizer library's from_pretrained.
LoadError == [NoResult EXCEPT !.kind = "LoadError"]

\* KeyError of self._tokenizer_cache[translation_pair].
KeyError == [NoResult EXCEPT !.kind = "KeyError"]

\* A request thread enters predict: the text check, then the resolution of
\* the pair; neither reads mutable state.
PredictEnter(t, translation_pair, text, raise_on_missing_model) ==
    LET c == [NoCall EXCEPT !.pair = translation_pair, !.text = text,
                            !.raise_on_missing_model = raise_on_missing_model,
                            !.intact = DirExists(translation_pair)
                                       /\ disk[translation_pair] = AllFiles]
    IN  IF ~TextIsValid(text)
        THEN /\ pc' = [pc EXCEPT ![t] = "done"]
             /\ call' = [call EXCEPT ![t] = [c EXCEPT !.result = InvalidInputError]]
        ELSE IF ~ResolveOk(translation_pair)
        THEN /\ pc' = [pc EXCEPT ![t] = "done"]
             /\ call' = [call EXCEPT ![t] = [c EXCEPT !.result = UnknownPairError]]
        ELSE /\ pc' = [pc EXCEPT ![t] = "check_dir"]
             /\ call' = [call EXCEPT ![t] = c]

\* A request thread calls predict with arguments of its own.
PredictCall(t) ==
    /\ pc[t] = "idle"
    /\ IF t = 1 THEN TRUE ELSE pc[t - 1] # "idle"
    /\ \E translation_pair \in PairInputs, text \in TextInputs,
          raise_on_missing_model \in {"True", "False"} :
         PredictEnter(t, translation_pair, text, raise_on_missing_model)
    /\ UNCHANGED << config, mgmt, model_cache, tokenizer_cache, disk, loaded >>

\* Mutant: the missing-model policy is ignored and the fetcher always called.
PredictCheckDirAlwaysFetch(t) ==
    /\ pc[t] = "check_dir"
    /\ IF ~DirExists(call[t].pair)
       THEN /\ Goto(t, "hf_start")
            /\ call' = [call EXCEPT ![t].fetches = @ + 1,
                                    ![t].raise_on_missing_model = "-"]
       ELSE /\ Goto(t, "cache_check")
            /\ call' = [call EXCEPT ![t].raise_on_missing_model = "-"]
    /\ UNCHANGED << config, mgmt, model_cache, tokenizer_cache, disk, loaded >>

\* "Check if model exists locally": the directory is named by the key as
\* the caller gave it. Absent: raise, or call the hub fetcher.
PredictCheckDir(t) ==
    /\ pc[t] = "check_dir"
    /\ IF ~DirExists(call[t].pair)
       THEN IF call[t].raise_on_missing_model = "True"
            THEN Finish(t, ArtifactMissingError)
            ELSE /\ Goto(t, "hf_start")
                 /\ call' = [call EXCEPT ![t].fetches = @ + 1,
                                         ![t].raise_on_missing_model = "-"]
       ELSE /\ Goto(t, "cache_check")
            /\ call' = [call EXCEPT ![t].raise_on_missing_model = "-"]
    /\ UNCHANGED << config, mgmt, model_cache, tokenizer_cache, disk, loaded >>

\* Mutant: a bundle still absent after the fetch is fetched again.
PredictRecheckRetry(t) ==
    /\ pc[t] = "recheck"
    /\ IF ~DirExists(call[t].pair)
       THEN /\ Goto(t, "hf_start")
            /\ call' = [call EXCEPT ![t].fetches = @ + 1]
       ELSE /\ Goto(t, "cache_check")
            /\ UNCHANGED call
    /\ UNCHANGED << config, mgmt, model_cache, tokenizer_cache, disk, loaded >>

\* "Check again after download attempt"
PredictRecheck(t) ==
    /\ pc[t] = "recheck"
    /\ IF ~DirExists(call[t].pair)
       THEN Finish(t, ArtifactMissingError)
       ELSE /\ Goto(t, "cache_check")
            /\ UNCHANGED call
    /\ UNCHANGED << config, mgmt, model_cache, tokenizer_cache, disk, loaded >>

\* "Load from cache or disk": if translation_pair not in self._model_cache
PredictCacheCheck(t) ==
    /\ pc[t] = "cache_check"
    /\ IF call[t].pair \notin DOMAIN model_cache
       THEN /\ Goto(t, "files_check")
            /\ UNCHANGED call
       ELSE /\ Goto(t, "use_cache")
            /\ UNCHANGED call
    /\ UNCHANGED << config, mgmt, model_cache, tokenizer_cache, disk, loaded >>

\* Mutant: only the encoder file is looked for.
MissingFilesEncoderOnly(name) == SelectSeq(<<ENCODER>>, LAMBDA f : ~FileExists(name, f))

\* missing_files = [f for f in required_files if not (abs_model_dir / f).exists()]
MissingFiles(name) == SelectSeq(required_files, LAMBDA f : ~FileExists(name, f))

\* "Verify that required ONNX files exist"
PredictFilesCheck(t) ==
    /\ pc[t] = "files_check"
    /\ IF MissingFiles(call[t].pair) # <<>>
       THEN Finish(t, IncompleteArtifactError(MissingFiles(call[t].pair)))
       ELSE /\ Goto(t, "load_model")
            /\ UNCHANGED call
    /\ UNCHANGED << config, mgmt, model_cache, tokenizer_cache, disk, loaded >>

\* ORTModelForSeq2SeqLM.from_pretrained(abs_model_dir, ...) reads the three
\* weight files and config.json; it raises when one of them is not there.
ModelLoadable(name) == \A f \in SavedModelFiles : FileExists(name, f)

\* AutoTokenizer.from_pretrained(abs_model_dir) reads the tokenizer files.
TokenizerLoadable(name) == \A f \in SavedTokenizerFiles : FileExists(name, f)

\* The number of model loads performed so far for a key; the n-th load of a
\* key yields the handle n, and the tokenizer loaded by the same call gets
\* the same number.
Loads(key) == IF key \in DOMAIN loaded THEN loaded[key] ELSE 0

\* self._model_cache[translation_pair] = ORTModelForSeq2SeqLM.from_pretrained(...)
PredictLoadModel(t) ==
    /\ pc[t] = "load_model"
    /\ IF ModelLoadable(call[t].pair)
       THEN /\ model_cache' = Put(model_cache, call[t].pair, Loads(call[t].pair) + 1)
            /\ loaded' = Put(loaded, call[t].pair, Loads(call[t].pair) + 1)
            /\ Goto(t, "load_tokenizer")
            /\ call' = [call EXCEPT ![t].own = Loads(call[t].pair) + 1]
       ELSE /\ Finish(t, LoadError)
            /\ UNCHANGED << model_cache, loaded >>
    /\ UNCHANGED << config, mgmt, tokenizer_cache, disk >>

\* self._tokenizer_cache[translation_pair] = AutoTokenizer.from_pretrained(...)
PredictLoadTokenizer(t) ==
    /\ pc[t] = "load_tokenizer"
    /\ IF TokenizerLoadable(call[t].pair)
       THEN /\ tokenizer_cache' = Put(tokenizer_cache, call[t].pair, call[t].own)
            /\ Goto(t, "use_cache")
            /\ call' = [call EXCEPT ![t].own = 0]
       ELSE /\ Finish(t, LoadError)
            /\ UNCHANGED tokenizer_cache
    /\ UNCHANGED << config, mgmt, model_cache, disk, loaded >>

\* model = self._model_cache[translation_pair] (the key is there: the cache
\* check or the load of this call saw to it, and nothing deletes keys), then
\* tokenizer = self._tokenizer_cache[translation_pair], then tokenize,
\* generate and decode, whose output is a function of the text.
PredictUseCache(t) ==
    /\ pc[t] = "use_cache"
    /\ IF call[t].pair \notin DOMAIN tokenizer_cache
       THEN Finish(t, KeyError)
       ELSE Finish(t, [NoResult EXCEPT !.kind = "ok", !.text = call[t].text])
    /\ UNCHANGED << config, mgmt, model_cache, tokenizer_cache, disk, loaded >>

\* ------------------------------------------- fetcher (Hugging Face hub)
\* A return of _download_model_from_hugging_face to its caller.
HFReturn(t) ==
    /\ pc' = [pc EXCEPT ![t] = "recheck"]
    /\ UNCHANGED call

\* _download_model_from_hugging_face, up to "local download": an unknown
\* pair is logged and the call returns; an existing directory is left alone
\* unless overwrite_existing_models is set.
HFStart(t) ==
    /\ pc[t] = "hf_start"
    /\ IF ~ResolveOk(call[t].pair)
       THEN HFReturn(t)
       ELSE IF ~overwrite_existing_models /\ DirExists(call[t].pair)
       THEN HFReturn(t)
       ELSE /\ Goto(t, "hf_mkdir")
            /\ UNCHANGED call
    /\ UNCHANGED << config, mgmt, model_cache, tokenizer_cache, disk, loaded >>

\* model_dir.mkdir(parents=True, exist_ok=True), then
\* ORTModelForSeq2SeqLM.from_pretrained(model_name, export=True, ...) and
\* AutoTokenizer.from_pretrained(model_name), which touch no state of the
\* manager: the mkdir raises, or the hub calls raise after it, or all three
\* succeed. Every exception is caught, logged and returned from.
HFMkdir(t) ==
    /\ pc[t] = "hf_mkdir"
    /\ \/ /\ HFReturn(t)
          /\ UNCHANGED disk
       \/ /\ disk' = WriteFiles(call[t].pair, {})
          /\ HFReturn(t)
       \/ /\ disk' = WriteFiles(call[t].pair, {})
          /\ Goto(t, "hf_save_model")
          /\ UNCHANGED call
    /\ UNCHANGED << config, mgmt, model_cache, tokenizer_cache, loaded >>

\* onnx_model.save_pretrained(str(model_dir))
HFSaveModel(t) ==
    /\ pc[t] = "hf_save_model"
    /\ \/ /\ disk' = WriteFiles(call[t].pair, SavedModelFiles)
          /\ Goto(t, "hf_save_tokenizer")
          /\ UNCHANGED call
       \/ /\ HFReturn(t)
          /\ UNCHANGED disk
    /\ UNCHANGED << config, mgmt, model_cache, tokenizer_cache, loaded >>

\* tokenizer.save_pretrained(str(model_dir))
HFSaveTokenizer(t) ==
    /\ pc[t] = "hf_save_tokenizer"
    /\ \/ disk' = WriteFiles(call[t].pair, SavedTokenizerFiles)
       \/ UNCHANGED disk
    /\ HFReturn(t)
    /\ UNCHANGED << config, mgmt, model_cache, tokenizer_cache, loaded >>

\* -------------------------------------------------------- environment
\* A bundle directory is removed from LOCAL_MODEL_DIR by something other
\* than the manager (the manager itself never deletes).
RemoveBundle ==
    /\ \E name \in DOMAIN disk :
         /\ disk' = [d \in DOMAIN disk \ {name} |-> disk[d]]
         /\ call' = [t \in Calls |->
                       IF call[t].pair = name THEN [call[t] EXCEPT !.intact = FALSE]
                       ELSE call[t]]
    /\ UNCHANGED << config, mgmt, model_cache, tokenizer_cache, pc, loaded >>

\* ----------------------------------------------------- specification
Next ==
    \/ \E t \in Calls :
         \/ PredictCall(t)
         \/ PredictCheckDir(t)
         \/ PredictRecheck(t)
         \/ PredictCacheCheck(t)
         \/ PredictFilesCheck(t)
         \/ PredictLoadModel(t)
         \/ PredictLoadTokenizer(t)
         \/ PredictUseCache(t)
         \/ HFStart(t)
         \/ HFMkdir(t)
         \/ HFSaveModel(t)
         \/ HFSaveTokenizer(t)
    \/ RemoveBundle

Spec == Init /\ [][Next]_vars

\* ------------------------------------------------- fetchers, as calls
\* Start-up loading, publishing and the listing run one after the other, so
\* below a fetcher call is one step: the set of the ways it can end, each
\* with the files it leaves behind.
FetchResult(outcome, invoked, objects, d, w, cj) ==
    [outcome |-> outcome, invoked |-> invoked, objects |-> objects,
     disk |-> d, workdir |-> w, config_json |-> cj]

\* Nothing was fetched and nothing written.
Untouched(outcome) == FetchResult(outcome, FALSE, 0, disk, workdir, config_json)

\* _download_model_from_hugging_face(translation_pair): the ways it returns.
\* It never raises. "failed": the except branch, entered by the mkdir, by
\* the hub conversion or a save_pretrained after the mkdir, or by the
\* tokenizer's save_pretrained after the model's.
DownloadModelFromHuggingFace(translation_pair) ==
    IF ~ResolveOk(translation_pair)
    THEN {Untouched("unknown")}
    ELSE IF ~overwrite_existing_models /\ DirExists(translation_pair)
    THEN {Untouched("skipped")}
    ELSE { Untouched("failed"),
           FetchResult("failed", TRUE, 0, WriteFiles(translation_pair, {}),
                       workdir, config_json),
           FetchResult("failed", TRUE, 0, WriteFiles(translation_pair, SavedModelFiles),
                       workdir, Put(config_json, translation_pair, SavedConfig)),
           FetchResult("ok", TRUE, 0, WriteFiles(translation_pair, AllFiles),
                       workdir, Put(config_json, translation_pair, SavedConfig)) }

\* paginator.paginate(Bucket=..., Prefix=s3_prefix): the keys listed.
ListObjects(s3_prefix) == {key \in DOMAIN bucket : StartsWith(key, s3_prefix)}

\* local_filepath of download_directory_from_s3 for a listed key.
LocalFilepath(key, s3_prefix, local_directory) ==
    PathJoin(local_directory, RelPath(key, s3_prefix))

\* A local file path names a file of a bundle directory of LOCAL_MODEL_DIR.
InModelDir(path) == StartsWith(DirName(path), LOCAL_MODEL_DIR \o <<"/">>)

BundleOf(path) == RelPath(DirName(path), LOCAL_MODEL_DIR)

\* download_directory_from_s3(s3_prefix, local_directory), run to its end:
\* every listed object is written to its local file path, directories made
\* as needed; with nothing listed nothing is written, and it logs success
\* and returns all the same.
DownloadDirectoryFromS3(s3_prefix, local_directory) ==
    LET keys == ListObjects(s3_prefix)
        path(key) == LocalFilepath(key, s3_prefix, local_directory)
        inside == {key \in keys : InModelDir(path(key))}
        outside == keys \ inside
        names == {BundleOf(path(key)) : key \in inside}
        dirs == {DirName(path(key)) : key \in outside}
        configs == {key \in inside : path(key)[Len(path(key))] = CONFIG}
    IN  FetchResult("ok", TRUE, Cardinality(keys),
            [n \in DOMAIN disk \cup names |->
                (IF n \in DOMAIN disk THEN disk[n] ELSE {}) \cup
                {path(key)[Len(path(key))] : key \in {k \in inside : BundleOf(path(k)) = n}}],
            [d \in DOMAIN workdir \cup dirs |->
                (IF d \in DOMAIN workdir THEN workdir[d] ELSE {}) \cup
                {path(key)[Len(path(key))] : key \in {k \in outside : DirName(path(k)) = d}}],
            [n \in DOMAIN config_json \cup {BundleOf(path(key)) : key \in configs} |->
                IF \E key \in configs : BundleOf(path(key)) = n
                THEN bucket[CHOOSE key \in configs : BundleOf(path(key)) = n]
                ELSE config_json[n]])

\* _download_model_from_s3(translation_pair, s3_bucket_name): skipped when
\* the bundle directory is there; else the backend is called with
\* expected_model_dir.name as the prefix and as the local directory, and
\* either raises (no such bucket, no credentials, no network), which nothing
\* here catches, or runs to its end.
DownloadModelFromS3(translation_pair) ==
    LET expected_model_dir == PathJoin(LOCAL_MODEL_DIR, translation_pair)
    IN  IF ~overwrite_existing_models /\ DirExists(translation_pair)
        THEN {Untouched("skipped")}
        ELSE { FetchResult("raised", TRUE, 0, disk, workdir, config_json),
               DownloadDirectoryFromS3(PathName(expected_model_dir),
                                       PathName(expected_model_dir)) }

\* A per-key counter, one up for the key.
Counted(count, key) ==
    Put(count, key, (IF key \in DOMAIN count THEN count[key] ELSE 0) + 1)

\* The fetcher call entered in the log.
Logged(fetcher, translation_pair, r) ==
    [fetch_log EXCEPT
        !.invoked = IF r.invoked THEN Counted(@, translation_pair) ELSE @,
        !.fetched = IF r.outcome = "ok" THEN Counted(@, translation_pair) ELSE @,
        !.last = [fetcher |-> fetcher, pair |-> translation_pair,
                  outcome |-> r.outcome, objects |-> r.objects]]

\* ----------------------------------------------------------- publishing
\* upload_directory_to_s3(local_directory) without an s3_directory, for the
\* bundle directory `name` holding `files`: os.walk yields the files; each is
\* uploaded under its local file path as the key, config.json with the text
\* cj has for it.
UploadDirectoryToS3(name, files, cj) ==
    LET local_directory == PathJoin(LOCAL_MODEL_DIR, name)
        s3_filepath(file) == PathJoin(local_directory, <<file>>)
        keys == {s3_filepath(file) : file \in files}
    IN  [key \in DOMAIN bucket \cup keys |->
            IF key \in keys
            THEN IF key[Len(key)] = CONFIG /\ name \in DOMAIN cj THEN cj[name] ELSE <<>>
            ELSE bucket[key]]

\* The command line's save_model: the hub fetcher, then in s3 mode the
\* upload of the bundle directory, which raises when the directory is not
\* there and may raise in the backend.
SaveModel ==
    /\ startup.state # "loading"
    /\ startup.runs < NRuns
    /\ startup' = [startup EXCEPT !.runs = @ + 1]
    /\ \E translation_pair \in PairInputs :
         \E r \in DownloadModelFromHuggingFace(translation_pair) :
            /\ disk' = r.disk
            /\ config_json' = r.config_json
            /\ IF model_storage_mode = "s3" /\ translation_pair \in DOMAIN r.disk
               THEN \/ /\ bucket' = UploadDirectoryToS3(translation_pair,
                                                        r.disk[translation_pair],
                                                        r.config_json)
                       /\ fetch_log' =
                            [Logged("hf", translation_pair, r) EXCEPT
                                !.published = Put(@, translation_pair,
                                                  r.disk[translation_pair])]
                    \/ /\ fetch_log' = Logged("hf", translation_pair, r)
                       /\ UNCHANGED bucket
               ELSE /\ fetch_log' = Logged("hf", translation_pair, r)
                    /\ UNCHANGED bucket
    /\ UNCHANGED << config, serving, batch, workdir, reply >>

\* ------------------------------------------------------------- listing
\* get_models_info, from the i-th pair of the catalog on, with the entries
\* collected so far: a pair whose directory exists gets an entry, whose model
\* name is looked up in the manager's mapping with no default.
RECURSIVE GetModelsInfoFrom(_, _, _)
GetModelsInfoFrom(i, models, return_model_config) ==
    IF i > Len(AVAILABLE_TRANSLATIONS)
    THEN [kind |-> "ok", models |-> models]
    ELSE LET translation_pair == AVAILABLE_TRANSLATIONS[i]
             entry == [model_name |-> DictGet(model_mappings, translation_pair),
                       file_type |-> "ONNX"]
             text == IF translation_pair \in DOMAIN config_json
                     THEN config_json[translation_pair] ELSE <<>>
         IN  IF ~DirExists(translation_pair)
             THEN GetModelsInfoFrom(i + 1, models, return_model_config)
             ELSE IF ~DictHas(model_mappings, translation_pair)
             THEN [kind |-> "KeyError", models |-> <<>>]
             ELSE IF return_model_config /\ FileExists(translation_pair, CONFIG)
                                         /\ JsonLoad(text).ok
             THEN GetModelsInfoFrom(i + 1,
                      DictSet(models, translation_pair,
                              entry @@ [f \in {"config"} |-> JsonLoad(text).value]),
                      return_model_config)
             ELSE GetModelsInfoFrom(i + 1, DictSet(models, translation_pair, entry),
                                    return_model_config)

GetModelsInfo(return_model_config) == GetModelsInfoFrom(1, <<>>, return_model_config)

\* ModelInfo of the response schema: config is optional and None by default;
\* None is the empty sequence, a config is the sequence of that one dict.
ModelInfo(entry) ==
    [model_name |-> entry.model_name, file_type |-> entry.file_type,
     config |-> IF "config" \in DOMAIN entry THEN <<entry.config>> ELSE <<>>]

\* GET /models: the listing through the response schema; an exception of
\* get_models_info is answered 500.
ModelsRequest(return_model_config) ==
    LET info == GetModelsInfo(return_model_config)
    IN  reply' = [kind |-> info.kind,
                  request |-> 1 - reply.request,
                  return_model_config |-> return_model_config,
                  info |-> info.models,
                  status |-> IF info.kind = "ok" THEN 200 ELSE 500,
                  models |-> [i \in 1..Len(info.models) |->
                                [k |-> info.models[i].k,
                                 v |-> ModelInfo(info.models[i].v)]]]

Models ==
    /\ startup.state = "up"
    /\ \E return_model_config \in BOOLEAN : ModelsRequest(return_model_config)
    /\ UNCHANGED << config, serving, batch, disk, workdir, config_json, bucket, startup,
                    fetch_log >>

\* ------------------------------------------------------------ start-up
\* AVAILABLE_TRANSLATIONS[:model_limit] for a model_limit of 0 or more.
StartupPairs(model_limit) ==
    SubSeq(AVAILABLE_TRANSLATIONS, 1,
           IF model_limit < Len(AVAILABLE_TRANSLATIONS)
           THEN model_limit ELSE Len(AVAILABLE_TRANSLATIONS))

\* The server module is imported: the manager is constructed and
\* load_api_models(model_limit=API_STARTUP_MODEL_LOADING_LIMIT) entered.
ProcessStart ==
    /\ startup.state # "loading"
    /\ startup.runs < NRuns
    /\ \E model_limit \in 0..Len(AVAILABLE_TRANSLATIONS) :
         startup' = [state |-> "loading", runs |-> startup.runs + 1,
                     model_limit |-> model_limit, attempted |-> <<>>]
    /\ reply' = NoReply
    /\ UNCHANGED << config, serving, batch, disk, workdir, config_json, bucket, fetch_log >>

\* The pair of the next iteration of the loop of load_api_models.
NextPair == StartupPairs(startup.model_limit)[Len(startup.attempted) + 1]

Looping ==
    /\ startup.state = "loading"
    /\ Len(startup.attempted) < Len(StartupPairs(startup.model_limit))

\* An iteration in local mode: the hub fetcher, which always returns.
LoadApiModelsLocal ==
    /\ Looping
    /\ model_storage_mode = "local"
    /\ \E r \in DownloadModelFromHuggingFace(NextPair) :
         /\ disk' = r.disk
         /\ config_json' = r.config_json
         /\ fetch_log' = Logged("hf", NextPair, r)
    /\ startup' = [startup EXCEPT !.attempted = Append(@, NextPair)]
    /\ UNCHANGED << config, serving, batch, workdir, bucket, reply >>

\* An iteration in s3 mode: the S3 fetcher; its exception leaves the loop,
\* load_api_models and the import of the server module.
LoadApiModelsS3 ==
    /\ Looping
    /\ model_storage_mode = "s3"
    /\ \E r \in DownloadModelFromS3(NextPair) :
         /\ disk' = r.disk
         /\ workdir' = r.workdir
         /\ config_json' = r.config_json
         /\ fetch_log' = Logged("s3", NextPair, r)
         /\ startup' = [startup EXCEPT
                           !.attempted = Append(@, NextPair),
                           !.state = IF r.outcome = "raised" THEN "failed" ELSE @]
    /\ UNCHANGED << config, serving, batch, bucket, reply >>

\* The loop is over: load_api_models returns and the server is up.
LoadApiModelsReturn ==
    /\ startup.state = "loading"
    /\ Len(startup.attempted) = Len(StartupPairs(startup.model_limit))
    /\ startup' = [startup EXCEPT !.state = "up"]
    /\ UNCHANGED << config, serving, batch, disk, workdir, config_json, bucket, fetch_log,
                    reply >>

\* The program moves to a fresh host (a new container) on the same bucket:
\* no local file, no process, no fetcher called yet.
NewHost ==
    /\ startup.state # "loading"
    /\ disk # EmptyDisk \/ workdir # EmptyDisk
    /\ disk' = EmptyDisk
    /\ workdir' = EmptyDisk
    /\ config_json' = NoTexts
    /\ startup' = [NoStartup EXCEPT !.runs = startup.runs]
    /\ fetch_log' = [NoFetchLog EXCEPT !.published = fetch_log.published]
    /\ reply' = NoReply
    /\ UNCHANGED << config, serving, batch, bucket >>

\* Hosts the program is started on: no bundle; en-es and en-fr, the latter
\* with a config.json cut short; en-fr like that and en-de, a pair of the
\* catalog the mapping lacks.
InitialHosts ==
    { [disk |-> EmptyDisk, config_json |-> NoTexts],
      [disk |-> [d \in {en_es, en_fr} |-> AllFiles],
       config_json |-> [d \in {en_es, en_fr} |->
                          IF d = en_fr THEN TruncatedConfig ELSE SavedConfig]],
      [disk |-> [d \in {en_fr, en_de} |-> AllFiles],
       config_json |-> [d \in {en_fr, en_de} |->
                          IF d = en_fr THEN TruncatedConfig ELSE SavedConfig]] }

\* Buckets: empty, or holding an en-fr bundle under the key prefix "en-fr/".
InitialBuckets ==
    { NoTexts,
      [key \in {PathJoin(en_fr, <<file>>) : file \in AllFiles} |->
          IF key[Len(key)] = CONFIG THEN SavedConfig ELSE <<>>] }

MgmtInit ==
    /\ env_model_mappings = RawMapping
    /\ model_mappings = FilterMappings(env_model_mappings)
    /\ model_storage_mode \in SeqRange(AVAILABLE_MODEL_STORAGE_MODES)
    /\ overwrite_existing_models \in BOOLEAN
    /\ model_cache = [k \in {} |-> 0]
    /\ tokenizer_cache = [k \in {} |-> 0]
    /\ pc = [t \in Calls |-> "idle"]
    /\ call = [t \in Calls |-> NoCall]
    /\ loaded = [k \in {} |-> 0]
    /\ \E host \in InitialHosts :
         disk = host.disk /\ config_json = host.config_json
    /\ workdir = EmptyDisk
    /\ bucket \in InitialBuckets
    /\ startup = NoStartup
    /\ fetch_log = NoFetchLog
    /\ reply = NoReply
    /\ request = NoRequest

MgmtNext ==
    \/ ProcessStart
    \/ LoadApiModelsLocal
    \/ LoadApiModelsS3
    \/ LoadApiModelsReturn
    \/ Models
    \/ SaveModel
    \/ NewHost

MgmtSpec == MgmtInit /\ [][MgmtNext]_vars

\* ---------------------------------------------------- /predict endpoint
\* Mappings files: the partial one above; a single supported pair; a key
\* twice, in two casings; only a key outside the supported set; an empty one.
RawMappings ==
    { RawMapping,
      << [k |-> en_es, v |-> "opus-mt-en-es"] >>,
      << [k |-> EN_ES, v |-> "opus-mt-tc-big-en-es"], [k |-> en_es, v |-> "opus-mt-en-es"] >>,
      << [k |-> xx_yy, v |-> "opus-mt-xx-yy"] >>,
      << >> }

\* Mutant: a key outside AVAILABLE_TRANSLATIONS is an error of the constructor.
InitRaisesOnUnknownKey(mappings, mode) ==
    \/ mappings = <<>>
    \/ \E i \in 1..Len(mappings) : Lower(mappings[i].k) \notin SeqRange(AVAILABLE_TRANSLATIONS)

\* __init__, "check inputs": the ValueError of an empty mapping or of a
\* storage mode outside AVAILABLE_MODEL_STORAGE_MODES.
InitRaises(mappings, mode) ==
    \/ mappings = <<>>
    \/ mode \notin SeqRange(AVAILABLE_MODEL_STORAGE_MODES)

\* The batches the clients post: the request schema wants one item at least.
ItemInputs == UNION {[1..n -> TextInputs] : n \in 1..NCalls}

\* The number of /predict requests of a behaviour.
NRequests == 2

NotSupportedDetail == "Translation pair is not supported.Available pairs:"

AllFailedDetail == "All translation attempts failed."

\* Mutant: the endpoint enters the loop whatever the pair.
PredictEndpointNoCheck ==
    /\ startup.state = "up"
    /\ request.state # "items"
    /\ request.served < NRequests
    /\ \E translation_pair \in PairInputs, items \in ItemInputs :
         request' = [NoRequest EXCEPT !.served = request.served + 1,
                                      !.pair = translation_pair, !.items = items,
                                      !.state = "items"]
    /\ pc' = [t \in Calls |-> "idle"]
    /\ call' = [t \in Calls |-> NoCall]
    /\ UNCHANGED << config, model_cache, tokenizer_cache, disk, loaded, workdir,
                    config_json, bucket, startup, fetch_log, reply >>

\* POST /predict/{translation_pair}, up to the loop: a pair that is not a
\* key of the manager's mapping, as sent, is answered 422. The threads of the
\* request before are gone.
PredictEndpoint ==
    /\ startup.state = "up"
    /\ request.state # "items"
    /\ request.served < NRequests
    /\ \E translation_pair \in PairInputs, items \in ItemInputs :
         LET r == [NoRequest EXCEPT !.served = request.served + 1,
                                    !.pair = translation_pair, !.items = items]
         IN  IF ~DictHas(model_mappings, translation_pair)
             THEN request' = [r EXCEPT !.state = "answered", !.status = 422,
                                       !.detail = NotSupportedDetail]
             ELSE request' = [r EXCEPT !.state = "items"]
    /\ pc' = [t \in Calls |-> "idle"]
    /\ call' = [t \in Calls |-> NoCall]
    /\ UNCHANGED << config, model_cache, tokenizer_cache, disk, loaded, workdir,
                    config_json, bucket, startup, fetch_log, reply >>

\* The loop's call of model_manager.predict for the item at index t - 1,
\* with raise_on_missing_model=False.
EndpointItem(t) ==
    /\ request.state = "items"
    /\ t = request.index + 1
    /\ t <= Len(request.items)
    /\ pc[t] = "idle"
    /\ PredictEnter(t, request.pair, request.items[t], "False")
    /\ request' = [request EXCEPT !.calls = Append(@, t - 1)]
    /\ UNCHANGED << config, model_cache, tokenizer_cache, disk, loaded, workdir,
                    config_json, bucket, startup, fetch_log, reply >>

\* Mutant: the loop is left at the first item that fails.
EndpointCollectBreak(t) ==
    /\ request.state = "items"
    /\ t = request.index + 1
    /\ pc[t] = "done"
    /\ request' =
         IF call[t].result.kind = "ok"
         THEN [request EXCEPT !.index = t,
                              !.results = Append(@, [position |-> t - 1,
                                                     result |-> call[t].result.text])]
         ELSE [request EXCEPT !.index = Len(request.items)]
    /\ UNCHANGED << config, serving, disk, workdir, config_json, bucket, startup,
                    fetch_log, reply >>

\* The rest of the loop body: the translation is appended with the item's
\* index as its position; an exception is logged and the loop goes on.
EndpointCollect(t) ==
    /\ request.state = "items"
    /\ t = request.index + 1
    /\ pc[t] = "done"
    /\ request' =
         IF call[t].result.kind = "ok"
         THEN [request EXCEPT !.index = t,
                              !.results = Append(@, [position |-> t - 1,
                                                     result |-> call[t].result.text])]
         ELSE [request EXCEPT !.index = t]
    /\ UNCHANGED << config, serving, disk, workdir, config_json, bucket, startup,
                    fetch_log, reply >>

\* After the loop: 500 when no item was translated, else the results.
EndpointReturn ==
    /\ request.state = "items"
    /\ request.index = Len(request.items)
    /\ request' =
         IF request.results = <<>>
         THEN [request EXCEPT !.state = "answered", !.status = 500,
                              !.detail = AllFailedDetail]
         ELSE [request EXCEPT !.state = "answered", !.status = 200]
    /\ UNCHANGED << config, serving, disk, workdir, config_json, bucket, startup,
                    fetch_log, reply >>

\* GET /models with the default of its query parameter.
ModelsDefault ==
    /\ startup.state = "up"
    /\ ModelsRequest(FALSE)
    /\ UNCHANGED << config, serving, batch, disk, workdir, config_json, bucket, startup,
                    fetch_log >>

\* The server process after its import: the manager constructed from the
\* mappings file, or the ValueError of the constructor; no model loaded at
\* start-up (API_STARTUP_MODEL_LOADING_LIMIT=0).
BatchInit ==
    /\ env_model_mappings \in RawMappings
    /\ model_storage_mode \in SeqRange(AVAILABLE_MODEL_STORAGE_MODES)
    /\ overwrite_existing_models \in BOOLEAN
    /\ IF InitRaises(env_model_mappings, model_storage_mode)
       THEN /\ model_mappings = <<>>
            /\ startup = [NoStartup EXCEPT !.state = "failed", !.runs = 1]
       ELSE /\ model_mappings = FilterMappings(env_model_mappings)
            /\ startup = [NoStartup EXCEPT !.state = "up", !.runs = 1]
    /\ model_cache = [k \in {} |-> 0]
    /\ tokenizer_cache = [k \in {} |-> 0]
    /\ disk \in InitialDisks
    /\ pc = [t \in Calls |-> "idle"]
    /\ call = [t \in Calls |-> NoCall]
    /\ loaded = [k \in {} |-> 0]
    /\ workdir = EmptyDisk
    /\ config_json = NoTexts
    /\ bucket = NoTexts
    /\ fetch_log = NoFetchLog
    /\ reply = NoReply
    /\ request = NoRequest

\* One /predict request at a time, its items one after the other, and
\* /models requests in between.
BatchNext ==
    \/ PredictEndpoint
    \/ \E t \in Calls :
         \/ EndpointItem(t)
         \/ EndpointCollect(t)
         \/ PredictCheckDir(t)
         \/ PredictRecheck(t)
         \/ PredictCacheCheck(t)
         \/ PredictFilesCheck(t)
         \/ PredictLoadModel(t)
         \/ PredictLoadTokenizer(t)
         \/ PredictUseCache(t)
         \/ HFStart(t)
         \/ HFMkdir(t)
         \/ HFSaveModel(t)
         \/ HFSaveTokenizer(t)
    \/ EndpointReturn
    \/ ModelsDefault

BatchSpec == BatchInit /\ [][BatchNext]_vars


\* ------------------------------------------------------------- claims
\* Thread t takes a step of its own out of the position `label`.
Leaves(t, label) == pc[t] = label /\ pc'[t] # label

\* The text is empty once its leading and trailing whitespace is removed.
Blank(text) == \A i \in 1..Len(text) : text[i] \in {" ", "\t", "\n"}

\* The key, lowercased, is a key of the manager's mapping.
Mapped(key) == \E i \in 1..Len(model_mappings) : model_mappings[i].k = Lower(key)

\* The key has an entry: a model handle and a tokenizer handle.
Cached(key) == key \in DOMAIN model_cache /\ key \in DOMAIN tokenizer_cache

FrameUnchanged == UNCHANGED << model_cache, tokenizer_cache, disk, loaded >>

\* C1: concurrent predict calls for one uncached pair key perform exactly one
\* model load for that key: no key is ever loaded twice.
C1_OneLoadPerKey == \A key \in DOMAIN loaded : loaded[key] <= 1

\* C2: a predict call for a key that has a cache entry is served from the
\* cache whatever the disk holds: from its directory check it goes on to the
\* cache, it neither raises nor calls the fetcher.
C2_CacheHitIgnoresDisk ==
    [][\A t \in Calls :
         (Leaves(t, "check_dir") /\ Cached(call[t].pair))
            => (pc'[t] = "cache_check" /\ call'[t].fetches = 0)]_vars

\* C3: every cache key and every bundle directory is a lowercase pair key of
\* the manager's mapping.
C3_KeysNormalized ==
    \A key \in DOMAIN model_cache \cup DOMAIN tokenizer_cache \cup DOMAIN disk :
        key = Lower(key) /\ Mapped(key)

\* C4: the cache never evicts: a cached handle stays the handle of its key in
\* every later state.
C4_EntriesKept ==
    [][/\ \A key \in DOMAIN model_cache :
             key \in DOMAIN model_cache' /\ model_cache'[key] = model_cache[key]
       /\ \A key \in DOMAIN tokenizer_cache :
             key \in DOMAIN tokenizer_cache' /\ tokenizer_cache'[key] = tokenizer_cache[key]]_vars

\* C5: predict with a text that is blank after trimming raises the
\* invalid-input error for every pair key and either policy, at once: no
\* pair resolution, no fetch, no change of the caches or the disk.
C5_BlankTextRejected ==
    [][\A t \in Calls :
         (Leaves(t, "idle") /\ Blank(call'[t].text))
            => /\ pc'[t] = "done"
               /\ call'[t].result.kind = "InvalidInput"
               /\ call'[t].fetches = 0
               /\ FrameUnchanged]_vars

C5_Witness ==
    \E t \in Calls :
        /\ pc[t] = "done"
        /\ call[t].text = <<" ">>
        /\ call[t].pair = xx_yy
        /\ call[t].raise_on_missing_model = "False"
        /\ call[t].result.kind = "InvalidInput"

\* C6: predict with a non-blank text and a pair key that is not in the
\* manager's filtered mapping raises the unknown-pair error, whose message
\* lists exactly the keys of that mapping, with no fetch and no change of
\* the caches or the disk.
C6_UnknownPairRejected ==
    [][\A t \in Calls :
         (Leaves(t, "idle") /\ ~Blank(call'[t].text) /\ ~Mapped(call'[t].pair))
            => /\ pc'[t] = "done"
               /\ call'[t].result.kind = "UnknownPair"
               /\ call'[t].result.pairs = [i \in 1..Len(model_mappings) |-> model_mappings[i].k]
               /\ call'[t].fetches = 0
               /\ FrameUnchanged]_vars

C6_Witness ==
    \E t \in Calls :
        /\ pc[t] = "done"
        /\ call[t].pair = xx_yy
        /\ call[t].result.kind = "UnknownPair"
        /\ call[t].result.pairs = <<en_es, en_fr>>

\* C7: under the strict policy, predict for a resolvable pair whose bundle
\* directory is absent raises the artifact-missing error at the directory
\* check, with no fetch, no directory creation and no cache change.
C7_StrictMissingRaises ==
    [][\A t \in Calls :
         (Leaves(t, "check_dir") /\ call[t].raise_on_missing_model = "True"
             /\ call[t].pair \notin DOMAIN disk)
            => /\ pc'[t] = "done"
               /\ call'[t].result.kind = "ArtifactMissing"
               /\ call'[t].fetches = 0
               /\ FrameUnchanged]_vars

C7_Witness ==
    \E t \in Calls :
        /\ pc[t] = "done"
        /\ call[t].raise_on_missing_model = "True"
        /\ call[t].pair = en_es
        /\ call[t].result.kind = "ArtifactMissing"

\* C8: under the lenient policy, predict for a pair whose bundle directory is
\* absent calls the fetcher exactly once; the fetcher is entered from the
\* directory check only, and a bundle still absent at the re-check makes the
\* call raise the artifact-missing error instead of fetching again.
C8_LenientFetchesOnce ==
    [][\A t \in Calls :
         /\ (Leaves(t, "check_dir") /\ call[t].raise_on_missing_model = "False"
                /\ call[t].pair \notin DOMAIN disk)
               => (pc'[t] = "hf_start" /\ call'[t].fetches = 1)
         /\ (pc'[t] = "hf_start" /\ pc[t] # "hf_start") => pc[t] = "check_dir"
         /\ Leaves(t, "recheck")
               => /\ call'[t].fetches = 1
                  /\ IF call[t].pair \notin DOMAIN disk
                     THEN pc'[t] = "done" /\ call'[t].result.kind = "ArtifactMissing"
                     ELSE pc'[t] = "cache_check"
         /\ call'[t].fetches <= 1]_vars

C8_Witness ==
    \E t \in Calls :
        /\ pc[t] = "done"
        /\ call[t].fetches = 1
        /\ call[t].result.kind = "ArtifactMissing"

\* C9: predict with a non-blank text for a pair whose bundle directory is
\* present and complete from the call to its end returns the decoded output
\* and never calls the fetcher.
C9_CompleteBundleTranslates ==
    \A t \in Calls :
        (pc[t] = "done" /\ call[t].intact /\ ~Blank(call[t].text) /\ Mapped(call[t].pair))
            => (call[t].result.kind = "ok" /\ call[t].fetches = 0)

\* C10 as claimed: on a cache miss, a bundle directory that lacks a file of
\* the model's and the tokenizer's set fails the files check with the
\* incomplete-artifact error; no load is attempted.
C10_AnyMissingFileRejected ==
    [][\A t \in Calls :
         (Leaves(t, "files_check") /\ (\E f \in AllFiles : ~FileExists(call[t].pair, f)))
            => (pc'[t] = "done" /\ call'[t].result.kind = "IncompleteArtifact")]_vars

\* C10 as amended: on a cache miss, a bundle directory that lacks one of
\* encoder_model.onnx, decoder_model.onnx, decoder_with_past_model.onnx fails
\* the files check with the incomplete-artifact error naming exactly the
\* missing ones of these three, in that order, before any load and without
\* the call adding a cache entry.
C10_MissingWeightsRejected ==
    [][\A t \in Calls :
         LET weights == <<"encoder_model.onnx", "decoder_model.onnx",
                          "decoder_with_past_model.onnx">>
             absent == SelectSeq(weights, LAMBDA f :
                           call[t].pair \notin DOMAIN disk \/ f \notin disk[call[t].pair])
         IN  (Leaves(t, "files_check") /\ absent # <<>>)
                => /\ pc'[t] = "done"
                   /\ call'[t].result.kind = "IncompleteArtifact"
                   /\ call'[t].result.missing = absent
                   /\ call'[t].own = 0
                   /\ FrameUnchanged]_vars

C10_Witness ==
    \E t \in Calls :
        /\ pc[t] = "done"
        /\ call[t].result.kind = "IncompleteArtifact"
        /\ call[t].result.missing = <<"decoder_model.onnx", "decoder_with_past_model.onnx">>
        /\ call[t].pair \notin DOMAIN model_cache

\* ---------------------------------- claims on fetching and publishing
\* The step is the call the loop of load_api_models makes for the pair.
LoaderCalls(p) ==
    startup.state = "loading" /\ startup'.attempted = Append(startup.attempted, p)

\* The step is a save_model command for the pair.
SaveCalls(p) ==
    /\ startup'.runs = startup.runs + 1
    /\ startup'.state = startup.state
    /\ fetch_log'.last.pair = p

\* The models, tokenizers and configs a host holds.
HostFiles == << disk, workdir, config_json >>

\* C11: with overwrite off the fetcher is idempotent in both storage modes:
\* over successive calls for one pair at most one hub conversion or storage
\* download is carried out, and a call for a pair whose bundle directory
\* exists invokes neither and leaves every file as it is.
C11_FetchIdempotent ==
    [][~overwrite_existing_models =>
         /\ \A p \in DOMAIN fetch_log'.fetched : fetch_log'.fetched[p] <= 1
         /\ \A p \in SeqRange(AVAILABLE_TRANSLATIONS) :
              (LoaderCalls(p) /\ p \in DOMAIN disk)
                 => /\ fetch_log'.invoked = fetch_log.invoked
                    /\ UNCHANGED << HostFiles, bucket >>]_vars

\* C12: in local mode a fetch that fails, for a pair whose bundle directory
\* was absent, returns to its caller and leaves the directory absent.
C12_FailedFetchLeavesNoBundle ==
    [][\A p \in SeqRange(AVAILABLE_TRANSLATIONS) \cup PairInputs :
         (/\ LoaderCalls(p) \/ SaveCalls(p)
          /\ model_storage_mode = "local"
          /\ fetch_log'.last.fetcher = "hf"
          /\ fetch_log'.last.outcome = "failed"
          /\ p \notin DOMAIN disk)
            => p \notin DOMAIN disk']_vars

\* C13: in s3 mode, after a fetch that ran to its end for a pair with objects
\* in the bucket, the bundle directory LOCAL_MODEL_DIR/pair exists and holds
\* the files downloaded.
C13_DownloadFillsBundle ==
    [][\A p \in SeqRange(AVAILABLE_TRANSLATIONS) :
         (/\ LoaderCalls(p)
          /\ fetch_log'.last.fetcher = "s3"
          /\ fetch_log'.last.outcome = "ok"
          /\ \E key \in DOMAIN bucket : SubSeq(key, 1, Len(p)) = p)
            => /\ p \in DOMAIN disk'
               /\ \A key \in DOMAIN bucket :
                     SubSeq(key, 1, Len(p) + 1) = p \o <<"/">> /\ Len(key) = Len(p) + 2
                        => key[Len(key)] \in disk'[p]]_vars

\* C14: in s3 mode publishing and fetching round-trip: once save_model has
\* uploaded the bundle of a pair, a fetch of that pair that runs to its end
\* on a host without the bundle recreates LOCAL_MODEL_DIR/pair with the
\* files uploaded.
C14_PublishFetchRoundTrip ==
    [][\A p \in SeqRange(AVAILABLE_TRANSLATIONS) :
         (/\ LoaderCalls(p)
          /\ fetch_log'.last.fetcher = "s3"
          /\ fetch_log'.last.outcome = "ok"
          /\ p \notin DOMAIN disk
          /\ p \in DOMAIN fetch_log.published
          /\ fetch_log.published[p] # {})
            => /\ p \in DOMAIN disk'
               /\ fetch_log.published[p] \subseteq disk'[p]]_vars

\* C15: in s3 mode a fetch for a pair with no object under its prefix ends
\* in a failure of its own, "not found remotely": it neither ends as a
\* success nor raises the backend's error.
C15_MissingPrefixReported ==
    [][\A p \in SeqRange(AVAILABLE_TRANSLATIONS) :
         (/\ LoaderCalls(p)
          /\ fetch_log'.last.fetcher = "s3"
          /\ fetch_log'.last.outcome # "skipped"
          /\ ~\E key \in DOMAIN bucket : SubSeq(key, 1, Len(p)) = p)
            => fetch_log'.last.outcome = "not_found"]_vars

\* ------------------------------------- claims on start-up and listing
\* C16: load_api_models with a limit from 0 to the size of the catalog calls
\* the fetcher for exactly the first `limit` pairs of the catalog, in its
\* order, whatever the mapping holds and however the earlier calls ended:
\* never for another pair, and for all of them once it is over.
C16_StartupAttemptsFirstPairs ==
    /\ Len(startup.attempted) <= startup.model_limit
    /\ \A i \in 1..Len(startup.attempted) :
          startup.attempted[i] = AVAILABLE_TRANSLATIONS[i]
    /\ startup.state \in {"up", "failed"}
          => Len(startup.attempted) = startup.model_limit

\* C17: in both storage modes no fetch failure gets out of load_api_models:
\* start-up never ends in an exception, so the loop goes on to the pairs
\* that remain.
C17_StartupFailureIsolated == startup.state # "failed"

\* The step answers a /models request.
ModelsStep == reply'.request # reply.request /\ reply'.kind # "none"

\* The pairs of the catalog whose bundle directory exists.
Present == {p \in SeqRange(AVAILABLE_TRANSLATIONS) : p \in DOMAIN disk}

\* The pairs listed by get_models_info in the step.
Listed == {reply'.info[i].k : i \in 1..Len(reply'.info)}

\* The entry get_models_info made for a listed pair in the step.
InfoOf(p) == reply'.info[CHOOSE i \in 1..Len(reply'.info) : reply'.info[i].k = p].v

\* The entry names the model the mapping has for the pair, and the format.
Described(p) ==
    /\ p \in Listed
    /\ {"model_name", "file_type"} \subseteq DOMAIN InfoOf(p)
    /\ \E i \in 1..Len(model_mappings) :
          model_mappings[i].k = p /\ model_mappings[i].v = InfoOf(p).model_name
    /\ InfoOf(p).file_type = "ONNX"

\* C18: get_models_info returns an entry with the model name and the format
\* for exactly the pairs of the catalog whose bundle directory exists, and
\* without return_model_config no entry has a config.
C18_ListsPresentBundles ==
    [][ModelsStep =>
         /\ reply'.kind = "ok"
         /\ Listed = Present
         /\ \A p \in Present : Described(p)
         /\ ~reply'.return_model_config
               => \A p \in Listed : "config" \notin DOMAIN InfoOf(p)]_vars

\* C19: get_models_info with return_model_config, when the config.json of a
\* pair is there but does not parse, does not raise, gives that pair an entry
\* with the model name and the format and without config, and lists every
\* other pair whose directory exists.
C19_BrokenConfigOmitted ==
    [][\A p \in Present :
         (/\ ModelsStep
          /\ reply'.return_model_config
          /\ "config.json" \in disk[p]
          /\ config_json[p] = TruncatedConfig)
            => /\ reply'.kind = "ok"
               /\ Described(p)
               /\ "config" \notin DOMAIN InfoOf(p)
               /\ Listed = Present]_vars

\* The model info the response has for a listed pair in the step.
ResponseOf(p) ==
    reply'.models[CHOOSE i \in 1..Len(reply'.models) : reply'.models[i].k = p].v

Answered == request.state = "answered" /\ request.status # 422

\* The items of the request whose predict call returned a translation, as
\* call slots, in the order of the request.
Translated ==
    SelectSeq([i \in 1..Len(request.items) |-> i],
              LAMBDA i : call[i].result.kind = "ok")

\* C21: for a batch of n items on a supported pair the endpoint calls predict
\* exactly once per item, in the order of the request, with the item's text;
\* it answers one result per item that succeeded, whose position is the
\* item's index, so that positions strictly increase; an item that fails
\* does not stop the next ones; and the answer is 500 exactly when every
\* item failed.
C21_BatchIsolatesItems ==
    Answered =>
        LET n == Len(request.items)
        IN  /\ request.calls = [i \in 1..n |-> i - 1]
            /\ \A i \in 1..n :
                  /\ pc[i] = "done"
                  /\ call[i].pair = request.pair
                  /\ call[i].text = request.items[i]
            /\ request.results =
                  [j \in 1..Len(Translated) |->
                      [position |-> Translated[j] - 1,
                       result |-> call[Translated[j]].result.text]]
            /\ \A j \in 1..(Len(request.results) - 1) :
                  request.results[j].position < request.results[j + 1].position
            /\ request.status \in {200, 500}
            /\ request.status = 500 <=> Translated = <<>>

\* A batch whose first item failed and whose second was translated.
C21_Witness ==
    /\ Answered
    /\ request.status = 200
    /\ Len(request.items) = 2
    /\ call[1].result.kind \notin {"ok", "none"}
    /\ request.results = <<[position |-> 1, result |-> request.items[2]]>>

C23_ListedPairsPredictable ==
    [][(/\ request.state = "items"
        /\ request'.state = "answered"
        /\ reply.status = 200
        /\ \E i \in 1..Len(reply.models) : reply.models[i].k = request.pair
        /\ \A i \in 1..Len(request.items) : ~Blank(request.items[i]))
          => /\ request'.status = 200
             /\ Len(request'.results) = Len(request.items)
             /\ \A j \in 1..Len(request'.results) :
                   request'.results[j].position = j - 1]_vars

Casings(k) ==
    {[i \in 1..Len(k) |-> IF up[i] THEN UpperChar(k[i]) ELSE k[i]] :
        up \in [1..Len(k) -> BOOLEAN]}

\* The casings of the supported pairs.
CatalogCasings ==
    [k \in {<<"e", "n", "-", "f", "r">>, <<"e", "n", "-", "e", "s">>,
             <<"e", "n", "-", "d", "e">>, <<"d", "e", "-", "e", "n">>,
             <<"f", "r", "-", "e", "s">>, <<"e", "s", "-", "e", "n">>} |-> Casings(k)]

\* C25: for every key k of the manager's mapping, resolving k, k in upper
\* case or k in any other casing gives the model identifier mapped to k:
\* whenever save_model has the fetcher resolve a pair that is a casing of a
\* key k, the pair is not taken for an unknown one, and every casing of k,
\* its upper case among them, resolves to the identifier mapped to k.
C25_ResolveIgnoresCase ==
    [][(startup'.runs = startup.runs + 1 /\ startup'.state = startup.state)
          => \A i \in 1..Len(model_mappings) :
                LET k == model_mappings[i].k
                IN  fetch_log'.last.pair \in CatalogCasings[k]
                       => /\ fetch_log'.last.outcome # "unknown"
                          /\ \A c \in CatalogCasings[k] :
                                /\ ResolveOk(c)
                                /\ Resolve(c) = model_mappings[i].v
                          /\ Upper(k) \in CatalogCasings[k]
                          /\ Resolve(Upper(k)) = Resolve(k)]_vars

\* save_model was called with the key in upper case and got past the
\* resolver.
C25_Witness ==
    /\ fetch_log.last.pair = <<"E", "N", "-", "E", "S">>
    /\ fetch_log.last.outcome \in {"ok", "skipped", "failed"}

\* ------------------------------------- claims on fetching and caching
\* C26: the fetch a lenient predict makes on demand uses the fetcher of the
\* storage mode: in s3 mode the hub conversion is not invoked by a predict
\* call.
C26_FetcherFollowsStorageMode ==
    [][\A t \in Calls :
         (Leaves(t, "hf_mkdir") /\ pc'[t] = "hf_save_model")
            => model_storage_mode # "s3"]_vars

\* C27: the model cache and the tokenizer cache have the same keys, at least
\* whenever no call stands between its two cache assignments; so a predict
\* whose model load succeeds and whose tokenizer load fails leaves the pair
\* in neither cache.
C27_CachesShareKeys ==
    (\A t \in Calls : pc[t] # "load_tokenizer")
        => DOMAIN model_cache = DOMAIN tokenizer_cache

\* C28: a failed fetch can be recovered from without overwrite: when the
\* hub conversion for a pair has failed and overwrite is off, the next
\* fetcher call for the pair, from save_model or from start-up loading,
\* attempts the fetch again rather than skipping it.
C28_FailedFetchRetried ==
    [][\A p \in PairInputs \cup SeqRange(AVAILABLE_TRANSLATIONS) :
         (/\ ~overwrite_existing_models
          /\ fetch_log.last.fetcher = "hf"
          /\ fetch_log.last.outcome = "failed"
          /\ fetch_log.last.pair = p
          /\ LoaderCalls(p) \/ SaveCalls(p))
            => fetch_log'.last.outcome # "skipped"]_vars

\* C29: while a call is inside the fetcher for a pair, the directory made
\* and the files not all written, no other predict call for the pair fails
\* on the unfinished bundle, with the incomplete-artifact error or in a
\* load.
C29_FetchInProgressIsInvisible ==
    [][\A t \in Calls :
         (/\ Leaves(t, "files_check") \/ Leaves(t, "load_model")
                \/ Leaves(t, "load_tokenizer")
          /\ \E u \in Calls \ {t} :
                /\ pc[u] \in {"hf_save_model", "hf_save_tokenizer"}
                /\ call[u].pair = call[t].pair)
            => call'[t].result.kind \notin {"IncompleteArtifact", "LoadError"}]_vars

\* C30: get_models_info never raises, whatever the mapping: with a bundle
\* directory for a pair of the catalog that the mapping lacks, the listing
\* is answered and has the pairs that are mapped and present.
C30_ListingNeverRaises ==
    [][ModelsStep =>
         /\ reply'.status = 200
         /\ \A p \in Present : Mapped(p) => p \in Listed]_vars

====
